---- MODULE Spec2Model ----
(***************************************************************************)
(* A model of pubmed_scraper.py: the command-line run (__main__), the      *)
(* search request (get_total_records), the batch fetcher                   *)
(* (fetch_articles_in_batches) and the file writer (save_to_csv), together *)
(* with the remote result set the two E-utilities endpoints answer from.   *)
(***************************************************************************)
EXTENDS Integers, Sequences, FiniteSets, TLC

(* ---------------------------------------------------------------------- *)
(* Bounds of the model                                                     *)
(* ---------------------------------------------------------------------- *)
\* largest number of entries of the remote result set (the esearch Count)
MaxTotal == 3
\* largest --record_limit tried (None and 0 are tried as well)
MaxLimit == 3
\* largest batch_size tried (the parameter of fetch_articles_in_batches)
MaxBatch == 2

(* ---------------------------------------------------------------------- *)
(* Python values                                                           *)
(* ---------------------------------------------------------------------- *)
\* Python's None / a find() that found no element: the empty tuple; a value
\* that is there is the one-element tuple holding it.
None == << >>
Some(x) == << x >>
Min(a, b) == IF a <= b THEN a ELSE b

\* Python's s[:n] for n >= 0
Take(s, n) == SubSeq(s, 1, Min(n, Len(s)))

\* Python's truthiness of an optional int (None and 0 are falsy)
Truthy(opt) == opt # None /\ opt[1] # 0

\* a range that includes its stop value (a loop bound off by one)
Range_Inclusive(stop, step) == { k \in 0..(IF stop > 0 THEN stop ELSE 0) : k % step = 0 }

\* range(0, stop, step): the set of values the loop variable takes
Range(stop, step) == { k \in 0..(IF stop > 0 THEN stop - 1 ELSE 0) : k < stop /\ k % step = 0 }

(* ---------------------------------------------------------------------- *)
(* The remote result set: parsed XML elements                              *)
(* ---------------------------------------------------------------------- *)
\* An <Author> element: each subelement is there (Some(text)) or not (None).
Author(last, fore, ini, aff) ==
    [LastName |-> last, ForeName |-> fore, Initials |-> ini, Affiliation |-> aff]

\* An entry of an efetch payload. tag is the element name; only
\* "PubmedArticle" elements are found by find_all("PubmedArticle").
Entry(tag, pmid, title, pubdate, authors) ==
    [tag |-> tag, PMID |-> pmid, ArticleTitle |-> title, PubDate |-> pubdate,
     Author |-> authors]

\* no author, no PMID, no PubDate
ArtNone == Entry("PubmedArticle", None, Some("Untitled"), None, << >>)
\* two authors, the second with missing subelements
ArtTwo == Entry("PubmedArticle", Some("101"), Some("Alpha"), Some([Year |-> Some("2020")]),
                << Author(Some("Ng"), Some("Ann"), Some("A"), Some("MIT")),
                   Author(Some("Ito"), None, Some("K"), None) >>)
\* five authors, no title, a PubDate without Year (a MedlineDate)
ArtFive == Entry("PubmedArticle", Some("202"), None, Some([Year |-> None]),
                 << Author(Some("Roe"), Some("Bo"), Some("B"), Some("UCL")),
                    Author(Some("Poe"), Some("Cy"), None, None),
                    Author(None, None, None, Some("CNRS")),
                    Author(Some("Lee"), Some("Di"), Some("D"), Some("ETH")),
                    Author(Some("Kim"), Some("Ed"), Some("E"), None) >>)
\* a record of the result set that is no <PubmedArticle> (a book chapter)
BookEntry == Entry("PubmedBookArticle", Some("303"), Some("Book"), None,
                   << Author(Some("Doe"), Some("Jo"), Some("J"), None) >>)

EntryPool == { ArtNone, ArtTwo, ArtFive, BookEntry }

\* every sequence over S of length 0..n
SeqsUpTo(S, n) == UNION { [1..k -> S] : k \in 0..n }

(* ---------------------------------------------------------------------- *)
(* State                                                                   *)
(* ---------------------------------------------------------------------- *)
VARIABLES
    remote,             \* the server's cached result set, one entry per hit
    record_limit,       \* args.record_limit: None or Some(n)
    batch_size,         \* batch_size of fetch_articles_in_batches
    dry_run,            \* args.dry_run
    pc,                 \* where the run is
    error,              \* None, or Some(<exception that ended the run>)
    search_body,        \* None, or Some(<the body the search endpoint answered with>)
    count,              \* main: count, web_env, query_key
    web_env,
    query_key,
    article_data,       \* fetch: the accumulated rows
    record_count,       \* fetch: articles processed
    total_to_retrieve,  \* fetch: the effective retrieval target
    retstart,           \* fetch: the loop variable
    current_batch_size, \* fetch: retmax of the current request
    articles,           \* fetch: the PubmedArticle elements of the current payload
    idx,                \* fetch: position of the inner for loop in articles
    pbar_total,         \* tqdm: total
    pbar_n,             \* tqdm: the progress counter
    main_articles,      \* main: the value fetch_articles_in_batches returned
    output_file,        \* None, or Some(<rows written, header first>)
    preview,            \* None, or Some(<rows printed by the dry-run preview>)
    requests,           \* log of the requests issued, with their outcomes
    in_flight,          \* number of requests sent and not yet answered
    processed,          \* offsets (in remote) of the articles processed, in order
    sleeps,             \* number of time.sleep(0.1) calls performed
    save_calls,         \* number of save_to_csv calls
    exit_kind,          \* how the fetcher returned: "", "preview", "limit", "exhausted"
    run,                \* 1 for the first run, 2 for a re-run with the same inputs
    first_run           \* None, or Some(<what the first run produced>)

inputVars == << remote, record_limit, batch_size, dry_run >>
mainVars == << count, web_env, query_key, main_articles, output_file, preview, save_calls >>
fetchVars == << article_data, record_count, total_to_retrieve, retstart,
                current_batch_size, articles, idx, pbar_total, pbar_n,
                processed, sleeps, exit_kind >>
netVars == << requests, in_flight, search_body >>
runVars == << run, first_run >>
vars == << inputVars, pc, error, mainVars, fetchVars, netVars, runVars >>

PREVIEW_LIMIT == 10
PREVIEW_SHOWN == 5

Header == << "PMID", "Title", "Year", "Last Name", "First Name", "Initials", "Affiliation" >>

\* the values every run starts from (nothing of the run has happened yet)
FreshRun ==
    /\ pc = "start"
    /\ error = None
    /\ count = 0 /\ web_env = None /\ query_key = None
    /\ article_data = << >> /\ record_count = 0 /\ total_to_retrieve = 0
    /\ retstart = 0 /\ current_batch_size = 0 /\ articles = << >> /\ idx = 1
    /\ pbar_total = 0 /\ pbar_n = 0
    /\ main_articles = None /\ output_file = None /\ preview = None
    /\ requests = << >> /\ in_flight = 0 /\ search_body = None
    /\ processed = << >> /\ sleeps = 0 /\ save_calls = 0 /\ exit_kind = ""

Init ==
    /\ remote \in SeqsUpTo(EntryPool, MaxTotal)
    /\ record_limit \in { None } \cup { Some(n) : n \in 0..MaxLimit }
    /\ batch_size \in 1..MaxBatch
    /\ dry_run \in BOOLEAN
    /\ FreshRun
    /\ run = 1
    /\ first_run = None

\* an uncaught exception ends the process
Raise(exc) ==
    /\ pc' = "raised"
    /\ error' = Some(exc)

(* ---------------------------------------------------------------------- *)
(* __main__: argument checks                                               *)
(* ---------------------------------------------------------------------- *)
Main_CheckArgs ==
    /\ pc = "start"
    /\ \E api_key_given \in BOOLEAN, logic_ok \in BOOLEAN :
          IF ~api_key_given \/ ~logic_ok
          THEN Raise("ValueError")
          ELSE pc' = "search" /\ UNCHANGED error
    /\ UNCHANGED << inputVars, mainVars, fetchVars, netVars, runVars >>

(* ---------------------------------------------------------------------- *)
(* get_total_records                                                       *)
(* ---------------------------------------------------------------------- *)
\* requests.get(esearch): the request leaves, the run blocks
Search_Send ==
    /\ pc = "search"
    /\ pc' = "search_wait"
    /\ requests' = Append(requests, [endpoint |-> "esearch", retstart |-> 0, retmax |-> 0,
                                     WebEnv |-> None, query_key |-> None,
                                     outcome |-> "pending", found |-> 0])
    /\ in_flight' = in_flight + 1
    /\ UNCHANGED << inputVars, error, mainVars, fetchVars, search_body, runVars >>

\* the decimal text of a count, as the <Count> element holds it
Digits == << "0", "1", "2", "3", "4", "5", "6", "7", "8", "9" >>
CountText(n) == Digits[n + 1]

\* int(text)
ParseInt(text) == CHOOSE n \in 0..(Len(Digits) - 1) : Digits[n + 1] = text

\* the bodies the search endpoint can answer with: each of the three elements
\* is there or not (an error page has none of them)
SearchBodies ==
    { [Count |-> c, WebEnv |-> w, QueryKey |-> q] :
        c \in { None, Some(CountText(Len(remote))) },
        w \in { None, Some("WE") },
        q \in { None, Some("1") } }

SetOutcome(log, outcome, found) ==
    [log EXCEPT ![Len(log)].outcome = outcome, ![Len(log)].found = found]

\* a parse that guards the two session tokens the way the article fields are
\* guarded, so that only a missing Count raises
SearchParseFails_CountOnly(body) == body.Count = None

\* soup.find("Count").text, soup.find("WebEnv").text, soup.find("QueryKey").text:
\* .text of a find() that found nothing raises AttributeError
SearchParseFails(body) ==
    body.Count = None \/ body.WebEnv = None \/ body.QueryKey = None

\* requests.get raises (no connection), or the body is parsed
Search_Recv ==
    /\ pc = "search_wait"
    /\ in_flight' = in_flight - 1
    /\ \/ /\ Raise("ConnectionError")
          /\ requests' = SetOutcome(requests, "network_failure", 0)
          /\ UNCHANGED << count, web_env, query_key, search_body >>
       \/ \E body \in SearchBodies :
             /\ requests' = SetOutcome(requests, "answered", 0)
             /\ search_body' = Some(body)
             /\ IF SearchParseFails(body)
                THEN /\ Raise("AttributeError")
                     /\ UNCHANGED << count, web_env, query_key >>
                ELSE /\ count' = ParseInt(body.Count[1])
                     /\ web_env' = body.WebEnv
                     /\ query_key' = body.QueryKey
                     /\ pc' = "fetch_enter"
                     /\ UNCHANGED error
    /\ UNCHANGED << inputVars, main_articles, output_file, preview, save_calls,
                    fetchVars, runVars >>

(* ---------------------------------------------------------------------- *)
(* fetch_articles_in_batches                                               *)
(* ---------------------------------------------------------------------- *)
TotalToRetrieve(total_records, limit) ==
    IF Truthy(limit) THEN Min(total_records, limit[1]) ELSE total_records

PbarTotal(dry, target) == IF dry THEN PREVIEW_LIMIT ELSE target

\* a list shared by the calls of the fetcher (a mutable default argument)
\* instead of a new list per call
NewArticleData_Shared ==
    IF first_run # None /\ first_run[1].returned # None
    THEN first_run[1].returned[1]
    ELSE << >>

\* article_data = []
NewArticleData == << >>

Fetch_Enter ==
    /\ pc = "fetch_enter"
    /\ article_data' = NewArticleData
    /\ record_count' = 0
    /\ total_to_retrieve' = TotalToRetrieve(count, record_limit)
    /\ pbar_total' = PbarTotal(dry_run, TotalToRetrieve(count, record_limit))
    /\ pbar_n' = 0
    /\ retstart' = 0
    /\ pc' = "loop"
    /\ UNCHANGED << inputVars, error, mainVars, current_batch_size, articles, idx,
                    processed, sleeps, exit_kind, netVars, runVars >>

CurrentBatchSize(bs, target, rc) == Min(bs, target - rc)

\* the for loop has a next retstart: the request of this window leaves
Fetch_Send ==
    /\ pc = "loop"
    /\ retstart \in Range(total_to_retrieve, batch_size)
    /\ current_batch_size' = CurrentBatchSize(batch_size, total_to_retrieve, record_count)
    /\ requests' = Append(requests,
            [endpoint |-> "efetch", retstart |-> retstart,
             retmax |-> CurrentBatchSize(batch_size, total_to_retrieve, record_count),
             WebEnv |-> web_env, query_key |-> query_key,
             outcome |-> "pending", found |-> 0])
    /\ in_flight' = in_flight + 1
    /\ pc' = "fetch_wait"
    /\ UNCHANGED << inputVars, error, mainVars, article_data, record_count,
                    total_to_retrieve, retstart, articles, idx, pbar_total, pbar_n,
                    processed, sleeps, exit_kind, search_body, runVars >>

\* the entries of the result set the server puts in the payload for
\* retstart/retmax, each with its offset
Window(rs, start, retmax) ==
    [ k \in 1..(IF Min(start + retmax, Len(rs)) > start
                THEN Min(start + retmax, Len(rs)) - start ELSE 0)
        |-> [offset |-> start + k - 1, elem |-> rs[start + k]] ]

IsPubmedArticle(e) == e.elem.tag = "PubmedArticle"

\* soup.find_all("PubmedArticle")
FindAllArticles(payload) == SelectSeq(payload, IsPubmedArticle)

FetchOutcomes == { "ok", "http_error", "network_failure" }

SameRequest(a, b) ==
    /\ a.endpoint = b.endpoint
    /\ a.retstart = b.retstart /\ a.retmax = b.retmax
    /\ a.WebEnv = b.WebEnv /\ a.query_key = b.query_key

\* the outcomes the pending request can have: any in a first run; in a re-run
\* against the unchanged remote, the outcome the same request had before
OutcomesFor(req) ==
    LET before == IF first_run = None THEN << >> ELSE first_run[1].requests
        same == { i \in DOMAIN before : SameRequest(before[i], req) }
    IN  IF same = {} THEN FetchOutcomes ELSE { before[i].outcome : i \in same }

\* requests.get raises (no connection); or a body arrives and is parsed,
\* whatever its HTTP status: an error body holds no PubmedArticle
Fetch_Recv ==
    /\ pc = "fetch_wait"
    /\ in_flight' = in_flight - 1
    /\ \E outcome \in OutcomesFor(requests[Len(requests)]) :
          CASE outcome = "network_failure" ->
                  /\ Raise("ConnectionError")
                  /\ requests' = SetOutcome(requests, outcome, 0)
                  /\ UNCHANGED << articles, idx >>
            [] outcome = "http_error" ->
                  /\ articles' = << >>
                  /\ idx' = 1
                  /\ requests' = SetOutcome(requests, outcome, 0)
                  /\ pc' = "articles"
                  /\ UNCHANGED error
            [] outcome = "ok" ->
                  /\ articles' = FindAllArticles(Window(remote, retstart, current_batch_size))
                  /\ idx' = 1
                  /\ requests' = SetOutcome(requests, outcome,
                        Len(FindAllArticles(Window(remote, retstart, current_batch_size))))
                  /\ pc' = "articles"
                  /\ UNCHANGED error
    /\ UNCHANGED << inputVars, mainVars, article_data, record_count, total_to_retrieve,
                    retstart, current_batch_size, pbar_total, pbar_n, processed,
                    sleeps, exit_kind, search_body, runVars >>

\* a missing element defaulted to the empty string instead of "N/A"
TextOrNA_Empty(found) == IF found # None THEN found[1] ELSE ""

\* x.find(name).text if x.find(name) else "N/A"
TextOrNA(found) == IF found # None THEN found[1] ELSE "N/A"

YearOf(article) ==
    IF article.PubDate # None /\ article.PubDate[1].Year # None
    THEN article.PubDate[1].Year[1]
    ELSE "N/A"

RowOf(article, author) ==
    << TextOrNA(article.PMID), TextOrNA(article.ArticleTitle), YearOf(article),
       TextOrNA(author.LastName), TextOrNA(author.ForeName),
       TextOrNA(author.Initials), TextOrNA(author.Affiliation) >>

\* an extraction that gives an article without authors one row of its own
RowsOf_RowPerArticle(article) ==
    IF Len(article.Author) = 0
    THEN << RowOf(article, Author(None, None, None, None)) >>
    ELSE [ a \in 1..Len(article.Author) |-> RowOf(article, article.Author[a]) ]

\* the rows of one article: one per author, in the order of the author list
RowsOf(article) == [ a \in 1..Len(article.Author) |-> RowOf(article, article.Author[a]) ]

\* rows put in front of the list (insert(0, row)) instead of appended
AppendRows_InFront(data, rows) == rows \o data

\* article_data.append(row) for each row of the article
AppendRows(data, rows) == data \o rows

PreviewCapHit(dry, data) == dry /\ Len(data) >= PREVIEW_LIMIT

\* the record cap compared with > instead of >=
RecordCapHit_OffByOne(limit, rc) == limit # None /\ rc > limit[1]

RecordCapHit(limit, rc) == limit # None /\ rc >= limit[1]

\* a return that cuts the list at the preview cap in a dry-run
Return_Truncated(kind) ==
    /\ main_articles' = Some(IF dry_run THEN Take(article_data, PREVIEW_LIMIT)
                                        ELSE article_data)
    /\ exit_kind' = kind
    /\ pc' = "fetched"

\* return article_data
Return(kind) ==
    /\ main_articles' = Some(article_data)
    /\ exit_kind' = kind
    /\ pc' = "fetched"

\* one pass of the inner for loop: the two cap checks, then the article's rows
Fetch_Article ==
    /\ pc = "articles"
    /\ idx <= Len(articles)
    /\ IF PreviewCapHit(dry_run, article_data)
       THEN /\ Return("preview")
            /\ UNCHANGED << article_data, record_count, idx, processed >>
       ELSE IF RecordCapHit(record_limit, record_count)
       THEN /\ Return("limit")
            /\ UNCHANGED << article_data, record_count, idx, processed >>
       ELSE /\ article_data' = AppendRows(article_data, RowsOf(articles[idx].elem))
            /\ record_count' = record_count + 1
            /\ processed' = Append(processed, articles[idx].offset)
            /\ idx' = idx + 1
            /\ UNCHANGED << main_articles, exit_kind, pc >>
    /\ UNCHANGED << inputVars, error, count, web_env, query_key, output_file, preview,
                    save_calls, total_to_retrieve, retstart, current_batch_size,
                    articles, pbar_total, pbar_n, sleeps, netVars, runVars >>

\* a pause that is skipped after a batch without articles
AfterSleep_SkippedOnEmptyBatch(n) == IF articles = << >> THEN n ELSE n + 1

\* time.sleep(0.1): one more pause performed
AfterSleep(n) == n + 1

\* the batch's articles are done: pbar.update, time.sleep, next retstart
Fetch_BatchEnd ==
    /\ pc = "articles"
    /\ idx > Len(articles)
    /\ pbar_n' = pbar_n + current_batch_size
    /\ sleeps' = AfterSleep(sleeps)
    /\ retstart' = retstart + batch_size
    /\ pc' = "loop"
    /\ UNCHANGED << inputVars, error, mainVars, article_data, record_count,
                    total_to_retrieve, current_batch_size, articles, idx, pbar_total,
                    processed, exit_kind, netVars, runVars >>

\* the for loop is exhausted: the return of the last line
Fetch_Exhausted ==
    /\ pc = "loop"
    /\ retstart \notin Range(total_to_retrieve, batch_size)
    /\ Return("exhausted")
    /\ UNCHANGED << inputVars, error, count, web_env, query_key, output_file, preview,
                    save_calls, article_data, record_count, total_to_retrieve, retstart,
                    current_batch_size, articles, idx, pbar_total, pbar_n, processed,
                    sleeps, netVars, runVars >>

(* ---------------------------------------------------------------------- *)
(* __main__: the preview or the file                                       *)
(* ---------------------------------------------------------------------- *)
\* what save_to_csv writes: the header row, then the rows
CsvContent(data) == << Header >> \o data

\* the whole list printed instead of its first five rows
PreviewRows_All(rows) == rows

\* articles[:5]
PreviewRows(rows) == Take(rows, PREVIEW_SHOWN)

Main_Output ==
    /\ pc = "fetched"
    /\ IF dry_run
       THEN /\ preview' = Some(PreviewRows(main_articles[1]))
            /\ UNCHANGED << output_file, save_calls >>
       ELSE /\ output_file' = Some(CsvContent(main_articles[1]))
            /\ save_calls' = save_calls + 1
            /\ UNCHANGED preview
    /\ pc' = "done"
    /\ UNCHANGED << inputVars, error, count, web_env, query_key, main_articles,
                    fetchVars, netVars, runVars >>

Next ==
    \/ Main_CheckArgs
    \/ Search_Send
    \/ Search_Recv
    \/ Fetch_Enter
    \/ Fetch_Send
    \/ Fetch_Recv
    \/ Fetch_Article
    \/ Fetch_BatchEnd
    \/ Fetch_Exhausted
    \/ Main_Output

Spec == Init /\ [][Next]_vars

\* the run is one sequential process: it always takes its next step, and a
\* request that was sent is eventually answered or fails
SpecFair == Init /\ [][Next]_vars /\ WF_vars(Next)

(* ---------------------------------------------------------------------- *)
(* A second call of the fetcher with the same inputs                       *)
(* ---------------------------------------------------------------------- *)
\* the first call of the fetcher has ended, by a return or by an exception
FirstCallOver ==
    /\ run = 1
    /\ web_env # None
    /\ pc \in { "done", "raised" }

\* fetch_articles_in_batches is called again with the session, record limit,
\* batch size and dry-run flag of the first call; what the first call
\* returned and what its requests were answered is kept for comparison
Rerun ==
    /\ FirstCallOver
    /\ first_run' = Some([returned |-> main_articles, requests |-> requests])
    /\ run' = 2
    /\ pc' = "fetch_enter"
    /\ error' = None
    /\ main_articles' = None /\ output_file' = None /\ preview' = None
    /\ save_calls' = 0
    /\ article_data' = << >> /\ record_count' = 0 /\ total_to_retrieve' = 0
    /\ retstart' = 0 /\ current_batch_size' = 0 /\ articles' = << >> /\ idx' = 1
    /\ pbar_total' = 0 /\ pbar_n' = 0
    /\ processed' = << >> /\ sleeps' = 0 /\ exit_kind' = ""
    /\ requests' = << >>
    /\ UNCHANGED << inputVars, count, web_env, query_key, in_flight, search_body >>

NextRerun == Next \/ Rerun

SpecRerun == Init /\ [][NextRerun]_vars

(* ---------------------------------------------------------------------- *)
(* Notions the properties are stated with                                  *)
(* ---------------------------------------------------------------------- *)
\* the fetcher has returned a list to __main__
Returned == pc \in { "fetched", "done" }

LimitGiven == record_limit # None

\* the efetch requests of the log
FetchRequests == SelectSeq(requests, LAMBDA r : r.endpoint = "efetch")

\* every efetch request so far was answered with as many articles as it asked for
AllBatchesFull == \A i \in DOMAIN requests :
    requests[i].endpoint = "efetch" => requests[i].found = requests[i].retmax

\* every efetch request so far was answered with a regular payload
NoFetchFailure == \A i \in DOMAIN requests :
    requests[i].endpoint = "efetch" => requests[i].outcome \in { "pending", "ok" }

RECURSIVE AuthorCountSum(_, _)
\* the sum of the author counts of the entries of rs at the given offsets
AuthorCountSum(rs, offsets) ==
    IF offsets = << >> THEN 0
    ELSE Len(rs[Head(offsets) + 1].Author) + AuthorCountSum(rs, Tail(offsets))

RECURSIVE RowEquivalent(_)
\* the rows all the articles of a result set would yield together
RowEquivalent(rs) ==
    IF rs = << >> THEN 0
    ELSE (IF Head(rs).tag = "PubmedArticle" THEN Len(Head(rs).Author) ELSE 0)
         + RowEquivalent(Tail(rs))

RECURSIVE RowsInEncounterOrder(_, _)
\* the rows of the entries at the given offsets, offset by offset and author
\* by author
RowsInEncounterOrder(rs, offsets) ==
    IF offsets = << >> THEN << >>
    ELSE LET article == rs[Head(offsets) + 1]
         IN  [ a \in 1..Len(article.Author) |-> RowOf(article, article.Author[a]) ]
             \o RowsInEncounterOrder(rs, Tail(offsets))

StrictlyIncreasing(s) == \A i, j \in DOMAIN s : i < j => s[i] < s[j]

(* ---------------------------------------------------------------------- *)
(* C1: articles processed with a record limit                              *)
(* ---------------------------------------------------------------------- *)
\* C1 as stated: in a run without dry-run and with a record limit L, the
\* fetcher returns with record_count = min(L, totalCount). (Checked where no
\* fetch request failed.)
C1_ProcessedEqualsMin ==
    (Returned /\ ~dry_run /\ LimitGiven /\ NoFetchFailure)
        => record_count = Min(record_limit[1], count)

\* C1, amended: in a run without dry-run and with a record limit L, in which
\* every fetch request was answered with as many articles as it asked for,
\* the fetcher returns with record_count = min(L, totalCount).
C1_ProcessedEqualsMinWhenFull ==
    (Returned /\ ~dry_run /\ LimitGiven /\ AllBatchesFull)
        => record_count = Min(record_limit[1], count)

\* a run of two full batches that the limit, below the total count, ends
C1_Witness ==
    /\ pc = "done" /\ ~dry_run /\ LimitGiven /\ AllBatchesFull
    /\ Len(FetchRequests) = 2
    /\ record_limit[1] < count
    /\ record_count = record_limit[1]

(* ---------------------------------------------------------------------- *)
(* C2: record_count never exceeds the target                               *)
(* ---------------------------------------------------------------------- *)
\* C2: in every state record_count is at most min(totalCount, recordLimit)
\* when a record limit is set and at most totalCount when none is set.
C2_ProcessedBounded ==
    record_count <= (IF LimitGiven THEN Min(count, record_limit[1]) ELSE count)

\* the bound is met with a limit below the total count, and without a limit
C2_Witness ==
    /\ Returned /\ LimitGiven
    /\ record_limit[1] < count
    /\ record_count = record_limit[1]
    /\ record_count > 0

(* ---------------------------------------------------------------------- *)
(* C3: the preview cap on the returned rows                                *)
(* ---------------------------------------------------------------------- *)
\* C3 as stated: in dry-run mode the list the fetcher returns never holds
\* more than 10 rows.
C3_PreviewCapOnReturn ==
    (dry_run /\ main_articles # None) => Len(main_articles[1]) <= PREVIEW_LIMIT

(* ---------------------------------------------------------------------- *)
(* C4: rows and author counts                                              *)
(* ---------------------------------------------------------------------- *)
\* C4: in every state the number of accumulated rows is the sum of the author
\* counts of the articles processed so far, and every processed article,
\* with or without authors, counts once in record_count.
C4_RowCount ==
    /\ Len(article_data) = AuthorCountSum(remote, processed)
    /\ record_count = Len(processed)

\* an article without authors was processed after one with authors
C4_Witness ==
    /\ Len(processed) >= 2
    /\ \E i \in DOMAIN processed : Len(remote[processed[i] + 1].Author) = 0
    /\ Len(article_data) > 0

(* ---------------------------------------------------------------------- *)
(* C5: dry-run ends by the early return                                    *)
(* ---------------------------------------------------------------------- *)
\* C5 as stated: in dry-run mode, when the articles of the result set would
\* together yield more than 10 rows, the fetcher returns through the early
\* preview-cap return, before it has processed all totalCount articles.
\* (Checked for runs without a record limit and without a failed request.)
C5_EarlyReturn ==
    (Returned /\ dry_run /\ ~LimitGiven /\ NoFetchFailure
        /\ RowEquivalent(remote) > PREVIEW_LIMIT)
        => (exit_kind = "preview" /\ record_count < count)

(* ---------------------------------------------------------------------- *)
(* C6: a failed fetch request ends the run                                 *)
(* ---------------------------------------------------------------------- *)
\* C6 as stated: a fetch request that fails, by a network failure or by an
\* HTTP error response, raises at that request: it is the last request of
\* the run, no rows are returned and no file is written.
C6_FetchFailureAborts ==
    \A i \in DOMAIN requests :
        (requests[i].endpoint = "efetch"
            /\ requests[i].outcome \in { "network_failure", "http_error" })
        => /\ pc = "raised"
           /\ i = Len(requests)
           /\ main_articles = None
           /\ output_file = None

(* ---------------------------------------------------------------------- *)
(* C7: a search response without count or tokens                           *)
(* ---------------------------------------------------------------------- *)
\* C7: when the search response lacks the count or either session token,
\* get_total_records raises instead of returning a session; the run issues
\* no fetch request and writes no file.
C7_SearchParseError ==
    (search_body # None
        /\ (search_body[1].Count = None \/ search_body[1].WebEnv = None
                \/ search_body[1].QueryKey = None))
    => /\ pc = "raised"
       /\ error = Some("AttributeError")
       /\ web_env = None /\ query_key = None
       /\ FetchRequests = << >>
       /\ main_articles = None
       /\ output_file = None

\* the count and one token are there, the other token is not
C7_Witness ==
    /\ search_body # None
    /\ search_body[1].Count # None
    /\ search_body[1].WebEnv = None
    /\ search_body[1].QueryKey # None
    /\ pc = "raised"

(* ---------------------------------------------------------------------- *)
(* C8: dry-run writes nothing                                              *)
(* ---------------------------------------------------------------------- *)
\* C8: a dry-run never calls save_to_csv and never writes the file, and its
\* preview is the first rows of the returned list, 5 at most; a run without
\* dry-run that completes has written the file exactly once.
C8_DryRunWritesNothing ==
    /\ dry_run =>
          /\ output_file = None
          /\ save_calls = 0
          /\ preview # None =>
                /\ Len(preview[1]) <= 5
                /\ preview[1] = SubSeq(article_data, 1, Len(preview[1]))
                /\ Len(preview[1]) = 5 \/ preview[1] = article_data
    /\ ~dry_run =>
          /\ save_calls <= 1
          /\ preview = None
          /\ pc = "done" => (save_calls = 1 /\ output_file # None)

\* a dry-run that returned more than 5 rows and showed 5 of them
C8_Witness ==
    /\ dry_run /\ pc = "done"
    /\ Len(main_articles[1]) > 5
    /\ Len(preview[1]) = 5

(* ---------------------------------------------------------------------- *)
(* C9: encounter order                                                     *)
(* ---------------------------------------------------------------------- *)
\* C9: the accumulated rows are the rows of the processed articles in
\* increasing offset, each article's rows in the order of its author list;
\* the written file is the 7-column header followed by exactly these rows.
C9_EncounterOrder ==
    /\ StrictlyIncreasing(processed)
    /\ article_data = RowsInEncounterOrder(remote, processed)
    /\ output_file # None =>
          /\ Len(output_file[1]) = 1 + Len(article_data)
          /\ output_file[1][1] = Header
          /\ Len(output_file[1][1]) = 7
          /\ \A k \in 1..Len(article_data) :
                /\ output_file[1][k + 1] = RowsInEncounterOrder(remote, processed)[k]
                /\ Len(output_file[1][k + 1]) = 7

\* a file with the rows of articles of two batches, one with several authors
C9_Witness ==
    /\ output_file # None
    /\ Len(FetchRequests) >= 2
    /\ Len(processed) >= 2
    /\ \E i \in DOMAIN processed : Len(remote[processed[i] + 1].Author) >= 2
    /\ remote[processed[1] + 1] # remote[processed[2] + 1]
    /\ Len(remote[processed[1] + 1].Author) > 0
    /\ Len(remote[processed[2] + 1].Author) > 0

Expected(found) == IF found = None THEN "N/A" ELSE found[1]

\* the position in article_data of the row of author a of the i-th processed
\* article
RowIndex(i, a) == AuthorCountSum(remote, SubSeq(processed, 1, i - 1)) + a

StatedTarget == IF LimitGiven THEN Min(count, record_limit[1]) ELSE count

\* C12 as stated: the fetch requests are issued at offsets 0, batchSize,
\* 2*batchSize, ... strictly below the effective target (for every given
\* limit >= 0) and at no other offset, each asking for at most batchSize
\* records.
C12_OffsetsBelowTarget ==
    \A i \in DOMAIN FetchRequests :
        /\ FetchRequests[i].retstart = (i - 1) * batch_size
        /\ FetchRequests[i].retstart < StatedTarget
        /\ FetchRequests[i].retmax <= batch_size

\* the same with the limit 0 left out: it holds of the code
C12_OffsetsBelowTargetPositiveLimit ==
    record_limit # Some(0) => C12_OffsetsBelowTarget

(* ---------------------------------------------------------------------- *)
(* C13, C14: the progress counter                                          *)
(* ---------------------------------------------------------------------- *)
\* C13 as stated: the progress counter never exceeds its bound, the
\* effective retrieval target in a normal run and the preview cap of 10 in a
\* dry-run. (Checked for runs without a failed request and without the
\* limit 0.)
C13_ProgressBounded ==
    (NoFetchFailure /\ record_limit # Some(0))
        => pbar_n <= (IF dry_run THEN PREVIEW_LIMIT ELSE StatedTarget)

\* C14 as stated: after every completed batch the progress counter equals
\* the number of articles processed. (Checked for runs without a failed
\* request.)
C14_ProgressIsProcessed ==
    (NoFetchFailure /\ pc = "loop") => pbar_n = record_count

(* ---------------------------------------------------------------------- *)
(* C15: whole author lists                                                 *)
(* ---------------------------------------------------------------------- *)
\* C15: the returned list holds, for every article, all of its author rows
\* or none of them: it is the rows of the processed articles, whole, also
\* when the 10-row threshold of a dry-run is crossed inside an article.
C15_WholeAuthorLists ==
    main_articles # None =>
        /\ Len(main_articles[1]) = AuthorCountSum(remote, processed)
        /\ main_articles[1] = RowsInEncounterOrder(remote, processed)

\* a dry-run that crossed the threshold inside its last article and
\* returned all the rows of that article
C15_Witness ==
    /\ dry_run /\ main_articles # None
    /\ Len(main_articles[1]) > PREVIEW_LIMIT
    /\ Len(main_articles[1]) - Len(remote[processed[Len(processed)] + 1].Author)
            < PREVIEW_LIMIT

(* ---------------------------------------------------------------------- *)
(* C16: the pause after a batch                                            *)
(* ---------------------------------------------------------------------- *)
\* the fetch requests that were answered with a body
AnsweredFetches ==
    Len(SelectSeq(requests, LAMBDA r : r.endpoint = "efetch"
                                        /\ r.outcome \in { "ok", "http_error" }))

\* C16 as stated: after every batch request that completes the pause is
\* performed before the next step of the fetcher, the next request or its
\* return, whatever the outcome of the batch. (Checked for runs without the
\* limit 0.)
C16_PauseAfterEveryBatch ==
    (record_limit # Some(0) /\ pc \in { "loop", "fetch_wait", "fetched", "done" })
        => sleeps = AnsweredFetches

\* C16, amended: after every batch request that completes and whose articles
\* are all passed without a cap being reached, empty or full, the pause is
\* performed before the next request or the return; a batch in which the
\* record cap or the preview cap is reached ends in a return without pause.
C16_PauseAfterPassedBatch ==
    /\ pc \in { "loop", "fetch_wait" } => sleeps = AnsweredFetches
    /\ (Returned /\ exit_kind = "exhausted") => sleeps = AnsweredFetches
    /\ (Returned /\ exit_kind \in { "preview", "limit" }) => sleeps = AnsweredFetches - 1

\* a run that paused after its first batch and returned at the preview cap
\* in its second, without a pause
C16_Witness ==
    /\ Returned /\ exit_kind = "preview"
    /\ AnsweredFetches = 2
    /\ sleeps = 1

(* ---------------------------------------------------------------------- *)
(* C17: termination and the number of requests                             *)
(* ---------------------------------------------------------------------- *)
\* ceil(a / b) for b >= 1
CeilDiv(a, b) == (a + b - 1) \div b

\* the call of the fetcher is over: it returned (by an early return or after
\* the last window), or a request of it failed with an exception
FetchOver ==
    \/ Returned /\ exit_kind \in { "preview", "limit", "exhausted" }
    \/ pc = "raised" /\ error = Some("ConnectionError")

SearchRequests == SelectSeq(requests, LAMBDA r : r.endpoint = "esearch")

PendingRequests == SelectSeq(requests, LAMBDA r : r.outcome = "pending")

\* the run is past its argument checks and has sent its search request
SearchSent == pc \notin { "start", "search" } /\ error # Some("ValueError")

\* C18: a run (past its argument checks) issues exactly one search request,
\* answered before the first fetch request; every fetch request carries the
\* two session tokens of that answer, the count and the target derived from
\* it stay what the search gave, and at most one request is in flight.
C18_OneSearchOneInFlight ==
    /\ Len(SearchRequests) = (IF SearchSent THEN 1 ELSE 0)
    /\ in_flight = Len(PendingRequests)
    /\ in_flight <= 1
    /\ \A i \in DOMAIN requests :
          requests[i].endpoint = "efetch" =>
              /\ i > 1
              /\ requests[1].endpoint = "esearch"
              /\ requests[1].outcome = "answered"
              /\ requests[i].WebEnv # None
              /\ requests[i].query_key # None
              /\ requests[i].WebEnv = search_body[1].WebEnv
              /\ requests[i].query_key = search_body[1].QueryKey
    /\ pc \in { "loop", "fetch_wait", "articles", "fetched", "done" } =>
          /\ search_body[1].Count = Some(Digits[count + 1])
          /\ total_to_retrieve =
                (IF record_limit # None /\ record_limit[1] # 0
                 THEN Min(count, record_limit[1]) ELSE count)

\* a completed run of one search and three fetch requests
C18_Witness ==
    /\ pc = "done"
    /\ Len(SearchRequests) = 1
    /\ Len(FetchRequests) = 3
    /\ in_flight = 0

(* ---------------------------------------------------------------------- *)
(* C19: requests inside the target                                         *)
(* ---------------------------------------------------------------------- *)
\* C19 as stated: every fetch request asks for 1..batchSize records and
\* stays inside the target, retstart + retmax <= total_to_retrieve, also
\* after a batch that returned fewer articles than it asked for. (Checked
\* for runs without a failed request.)
C19_RequestsInsideTarget ==
    NoFetchFailure =>
        \A i \in DOMAIN FetchRequests :
            /\ 1 <= FetchRequests[i].retmax
            /\ FetchRequests[i].retmax <= batch_size
            /\ FetchRequests[i].retstart + FetchRequests[i].retmax <= total_to_retrieve

(* ---------------------------------------------------------------------- *)
(* C20: one pause between two fetch requests                               *)
(* ---------------------------------------------------------------------- *)
\* C20: whenever a fetch request is issued, as many pauses have been
\* performed as fetch requests were issued before it: between two
\* consecutive fetch requests there is exactly one pause.
C20_OnePauseBetweenRequests ==
    [][Len(FetchRequests') > Len(FetchRequests) => sleeps = Len(FetchRequests)]_vars

\* the third fetch request of a run is out, after two pauses
C20_Witness ==
    /\ pc = "fetch_wait"
    /\ Len(FetchRequests) = 3
    /\ sleeps = 2

====
